---- MODULE Spec2Model ----
(***************************************************************************)
(* Model of the feedback-loop hiring simulation (src/app/simulation.py,    *)
(* src/app/metrics.py, src/app/utils.py).                                  *)
(*                                                                         *)
(* Python floats are modelled as exact rationals <<numerator, denominator>>*)
(* in lowest terms with a positive denominator.  The seeded generator      *)
(* random.Random(seed) is modelled as a periodic stream of raw outputs     *)
(* that is a function of the seed; rng is the number of outputs consumed.  *)
(***************************************************************************)
EXTENDS Integers, Sequences, FiniteSets, TLC

\* ---------------------------------------------------------------- bounds
\* Largest population size of the general runs.
MaxAgents == 3
\* Largest iteration count.
MaxIterations == 2
\* Period of the modelled random stream (number of raw outputs per period).
StreamLen == 5

\* ------------------------------------------------------- exact arithmetic
\* Python evaluates the arguments of a call once, before the call.
Call1(Op(_), x) == CHOOSE r \in {Op(a) : a \in {x}} : TRUE
Call2(Op(_, _), x, y) == CHOOSE r \in {Op(a, b) : a \in {x}, b \in {y}} : TRUE
Call3(Op(_, _, _), x, y, z) ==
    CHOOSE r \in {Op(a, b, c) : a \in {x}, b \in {y}, c \in {z}} : TRUE

Abs(a) == IF a < 0 THEN -a ELSE a

RECURSIVE GCD(_, _)
GCD(a, b) == IF b = 0 THEN a ELSE Call2(GCD, b, a % b)

\* The float n/d, in lowest terms.
Reduce(n, d) ==
    LET s == IF d < 0 THEN -1 ELSE 1
        g == GCD(Abs(n), Abs(d))
    IN  <<(s * n) \div g, (s * d) \div g>>
Q(n, d) == Call2(Reduce, n, d)

Zero == <<0, 1>>
One == <<1, 1>>
Half == <<1, 2>>
None == <<>>

FromInt(k) == <<k, 1>>

\* Least common denominator of x and y.
LCD(x, y) == (x[2] \div GCD(x[2], y[2])) * y[2]

Plus(x, y) ==
    LET l == LCD(x, y) IN Q(x[1] * (l \div x[2]) + y[1] * (l \div y[2]), l)
Minus(x, y) ==
    LET l == LCD(x, y) IN Q(x[1] * (l \div x[2]) - y[1] * (l \div y[2]), l)
Times(x, y) ==
    LET g == GCD(Abs(x[1]), y[2])
        h == GCD(Abs(y[1]), x[2])
    IN  Q((x[1] \div g) * (y[1] \div h), (x[2] \div h) * (y[2] \div g))
Less(x, y) ==
    LET l == LCD(x, y) IN x[1] * (l \div x[2]) < y[1] * (l \div y[2])
LessEq(x, y) ==
    LET l == LCD(x, y) IN x[1] * (l \div x[2]) <= y[1] * (l \div y[2])

\* x + y, x - y, x * y, x < y, x <= y.
QAdd(x, y) == Call2(Plus, x, y)
QSub(x, y) == Call2(Minus, x, y)
QMul(x, y) == Call2(Times, x, y)
QLt(x, y) == Call2(Less, x, y)
QLe(x, y) == Call2(LessEq, x, y)

\* Python's min(a, b) and max(a, b): the first argument unless the second
\* is strictly smaller (larger).
Smaller(a, b) == IF Less(b, a) THEN b ELSE a
Larger(a, b) == IF Less(a, b) THEN b ELSE a
PyMin(a, b) == Call2(Smaller, a, b)
PyMax(a, b) == Call2(Larger, a, b)

\* int(x): truncation toward zero.
Truncate(x) == IF x[1] >= 0 THEN x[1] \div x[2] ELSE -((-x[1]) \div x[2])
PyInt(x) == Call1(Truncate, x)

RECURSIVE Pow(_, _)
Pow(b, e) == IF e = 0 THEN 1 ELSE b * Pow(b, e - 1)

\* Long division: <<whole, r>> stands for whole + r/d; k more decimal
\* digits of r/d are moved into whole.
RECURSIVE ShiftDigits(_, _, _)
ShiftDigits(wr, d, k) ==
    IF k = 0 THEN wr
    ELSE Call3(ShiftDigits,
               <<wr[1] * 10 + (wr[2] * 10) \div d, (wr[2] * 10) % d>>, d, k - 1)

\* round(x, ndigits): to the nearest multiple of 10^-ndigits, ties to even.
RoundHalfEven(x, ndigits) ==
    LET a == Abs(x[1])
        wr == ShiftDigits(<<a \div x[2], a % x[2]>>, x[2], ndigits)
        w == wr[1]
        r == wr[2]
        m == IF 2 * r > x[2] THEN w + 1
             ELSE IF 2 * r < x[2] THEN w
             ELSE IF w % 2 = 0 THEN w ELSE w + 1
    IN  Q((IF x[1] < 0 THEN -1 ELSE 1) * m, Pow(10, ndigits))
PyRound(x, ndigits) == Call2(RoundHalfEven, x, ndigits)

\* ------------------------------------------------------------ utils.py
clamp_no_upper(value, lo, hi) == PyMax(lo, value)
clamp(value, lo, hi) == PyMax(lo, PyMin(hi, value))

clamp01(value) == clamp(value, Zero, One)

Quotient(numerator, denominator, default) ==
    IF denominator # 0 THEN Q(numerator, denominator) ELSE default
safe_div(numerator, denominator, default) ==
    Call3(Quotient, numerator, denominator, default)

\* shannon_entropy(p): 0 outside (0, 1); inside, log2 is irrational, so the
\* model holds the value to six decimals (all that a snapshot keeps), by
\* table over the fractions with denominator up to 12 and the fractions
\* a/128.
log2_entropy_micro(p) ==
    CASE p = <<1, 12>> -> 413817 [] p = <<1, 11>> -> 439497 [] p = <<1, 10>> -> 468996
      [] p = <<1, 9>> -> 503258 [] p = <<1, 8>> -> 543564 [] p = <<1, 7>> -> 591673
      [] p = <<1, 6>> -> 650022 [] p = <<2, 11>> -> 684038 [] p = <<1, 5>> -> 721928
      [] p = <<2, 9>> -> 764205 [] p = <<1, 4>> -> 811278 [] p = <<3, 11>> -> 845351
      [] p = <<2, 7>> -> 863121 [] p = <<3, 10>> -> 881291 [] p = <<1, 3>> -> 918296
      [] p = <<4, 11>> -> 945660 [] p = <<3, 8>> -> 954434 [] p = <<2, 5>> -> 970951
      [] p = <<5, 12>> -> 979869 [] p = <<3, 7>> -> 985228 [] p = <<4, 9>> -> 991076
      [] p = <<5, 11>> -> 994030 [] p = <<1, 2>> -> 1000000 [] p = <<6, 11>> -> 994030
      [] p = <<5, 9>> -> 991076 [] p = <<4, 7>> -> 985228 [] p = <<7, 12>> -> 979869
      [] p = <<3, 5>> -> 970951 [] p = <<5, 8>> -> 954434 [] p = <<7, 11>> -> 945660
      [] p = <<2, 3>> -> 918296 [] p = <<7, 10>> -> 881291 [] p = <<5, 7>> -> 863121
      [] p = <<8, 11>> -> 845351 [] p = <<3, 4>> -> 811278 [] p = <<7, 9>> -> 764205
      [] p = <<4, 5>> -> 721928 [] p = <<9, 11>> -> 684038 [] p = <<5, 6>> -> 650022
      [] p = <<6, 7>> -> 591673 [] p = <<7, 8>> -> 543564 [] p = <<8, 9>> -> 503258
      [] p = <<9, 10>> -> 468996 [] p = <<10, 11>> -> 439497 [] p = <<11, 12>> -> 413817

\* The same for the fractions a/128, indexed by a.
log2_entropy_micro_128 ==
    <<65914, 116115, 160329, 200622, 237977, 272971, 305985, 337290,
      367089, 395538, 422762, 448864, 473929, 498028, 521222, 543564,
      565101, 585873, 605916, 625262, 643940, 661976, 679393, 696212,
      712453, 728134, 743271, 757878, 771971, 785560, 798659, 811278,
      823427, 835116, 846354, 857148, 867507, 877437, 886946, 896038,
      904721, 912999, 920878, 928362, 935456, 942163, 948488, 954434,
      960004, 965202, 970029, 974489, 978584, 982317, 985688, 988699,
      991353, 993651, 995593, 997180, 998414, 999295, 999824, 1000000,
      999824, 999295, 998414, 997180, 995593, 993651, 991353, 988699,
      985688, 982317, 978584, 974489, 970029, 965202, 960004, 954434,
      948488, 942163, 935456, 928362, 920878, 912999, 904721, 896038,
      886946, 877437, 867507, 857148, 846354, 835116, 823427, 811278,
      798659, 785560, 771971, 757878, 743271, 728134, 712453, 696212,
      679393, 661976, 643940, 625262, 605916, 585873, 565101, 543564,
      521222, 498028, 473929, 448864, 422762, 395538, 367089, 337290,
      305985, 272971, 237977, 200622, 160329, 116115, 65914 >>

BinaryEntropy(p) ==
    IF LessEq(p, Zero) \/ LessEq(One, p) THEN Zero
    ELSE IF p[2] > 12 /\ 128 % p[2] = 0
         THEN Q(log2_entropy_micro_128[p[1] * (128 \div p[2])], 1000000)
    ELSE Q(log2_entropy_micro(p), 1000000)
shannon_entropy(p) == Call1(BinaryEntropy, p)

\* --------------------------------------------------- random.Random(seed)
\* Value of rng.random() for each raw generator output: uniform in [0, 1).
UniformTable == << <<1, 4>>, <<3, 4>> >>
\* Standard-normal deviate for each raw generator output.
NormalTable == <<-1, 4>>
RawCount == Len(UniformTable)

Seeds == 0 .. (Pow(RawCount, StreamLen) - 1)

\* The stream of raw outputs the seed determines (one period of it).
RandomStream(seed) ==
    [j \in 1 .. StreamLen |-> (seed \div Pow(RawCount, j - 1)) % RawCount]

\* The raw output read when pos outputs have been consumed.
RawAt(seed, pos) == RandomStream(seed)[(pos % StreamLen) + 1]

\* rng.random() and rng.gauss(mu, sigma) at stream position pos.
random(seed, pos) == UniformTable[RawAt(seed, pos) + 1]
gauss(seed, pos, mu, sigma) ==
    QAdd(mu, QMul(sigma, FromInt(NormalTable[RawAt(seed, pos) + 1])))

\* random.Random(seed): a fresh generator, nothing consumed.
NewRandom(seed) == 0

\* ------------------------------------------------------- data classes
Agent(group, skill, trust_in_algorithm, adaptation_speed, risk_tolerance, preference_for_high) ==
    [group |-> group, skill |-> skill,
     trust_in_algorithm |-> trust_in_algorithm,
     adaptation_speed |-> adaptation_speed,
     risk_tolerance |-> risk_tolerance,
     preference_for_high |-> preference_for_high]

HRDepartment(trust_in_model, institutional_bias, hiring_threshold, hiring_capacity) ==
    [trust_in_model |-> trust_in_model,
     institutional_bias |-> institutional_bias,
     hiring_threshold |-> hiring_threshold,
     hiring_capacity |-> hiring_capacity]

\* The default_factory of Platform.p_high: a fresh mapping per instance.
DefaultPHigh == [A |-> Half, B |-> Half]

Platform(learning_rate, diversity_regularization, feedback_weight) ==
    [learning_rate |-> learning_rate,
     diversity_regularization |-> diversity_regularization,
     feedback_weight |-> feedback_weight,
     p_high |-> DefaultPHigh]

\* SimParams with its defaults, but for n_agents, seed and iterations.
DefaultProfile ==
    [group_imbalance |-> <<1, 2>>,
     t_user |-> <<7, 10>>, a_user |-> <<3, 10>>, r_user |-> <<1, 5>>,
     t_hr |-> <<3, 5>>, b_hr |-> <<3, 20>>,
     hiring_threshold |-> <<9, 20>>, hiring_capacity |-> <<3, 10>>,
     lr |-> <<1, 4>>, diversity_reg |-> <<1, 10>>,
     feedback_weight |-> <<3, 5>>]

\* The parameter settings of the general runs: the defaults and settings
\* that reach the edges of the documented ranges (and, for the platform's
\* learning parameters, values outside them).
Profiles ==
    { DefaultProfile,
      \* no bias and a low threshold: ties between groups, the cap decides
      [DefaultProfile EXCEPT !.b_hr = Zero, !.hiring_threshold = <<1, 10>>,
                             !.hiring_capacity = <<1, 2>>,
                             !.t_user = <<3, 4>>, !.r_user = Half],
      \* nobody eligible; nobody trusts the platform
      [DefaultProfile EXCEPT !.hiring_threshold = <<2, 1>>,
                             !.t_user = Zero, !.a_user = One,
                             !.diversity_reg = One],
      \* everybody eligible and within capacity; pure model exposure
      [DefaultProfile EXCEPT !.hiring_threshold = <<-1, 1>>,
                             !.hiring_capacity = One,
                             !.t_user = One, !.r_user = Zero,
                             !.diversity_reg = Zero, !.lr = One,
                             !.feedback_weight = Zero],
      \* learning parameters outside [0, 1]
      [DefaultProfile EXCEPT !.lr = <<2, 1>>, !.feedback_weight = <<-1, 1>>,
                             !.hiring_threshold = <<1, 2>>,
                             !.diversity_reg = Zero, !.b_hr = <<1, 2>>],
      [DefaultProfile EXCEPT !.lr = <<-1, 1>>, !.feedback_weight = <<2, 1>>,
                             !.hiring_capacity = Zero, !.a_user = Half] }

\* The end-to-end scenario of a population of 10 with hiring_threshold -1
\* and hiring_capacity 1, under several biases and group mixes.
ScenarioProfiles ==
    { [DefaultProfile EXCEPT !.hiring_threshold = <<-1, 1>>,
                             !.hiring_capacity = One],
      [DefaultProfile EXCEPT !.hiring_threshold = <<-1, 1>>,
                             !.hiring_capacity = One,
                             !.group_imbalance = <<3, 4>>,
                             !.b_hr = <<3, 1>>, !.t_hr = Half] }

\* A population of 128 in one group: exposure rates are multiples of 1/128,
\* whose seventh decimal is a 5.
SingleGroupProfile == [DefaultProfile EXCEPT !.group_imbalance = One]

SimParams(n_agents, seed, iterations, profile) ==
    [n_agents |-> n_agents,
     group_imbalance |-> profile.group_imbalance,
     seed |-> seed,
     t_user |-> profile.t_user, a_user |-> profile.a_user,
     r_user |-> profile.r_user,
     t_hr |-> profile.t_hr, b_hr |-> profile.b_hr,
     hiring_threshold |-> profile.hiring_threshold,
     hiring_capacity |-> profile.hiring_capacity,
     lr |-> profile.lr, diversity_reg |-> profile.diversity_reg,
     feedback_weight |-> profile.feedback_weight,
     iterations |-> iterations]

\* The requests the model runs.
ParamSpace ==
    { SimParams(n, s, it, pr) :
        n \in 0 .. MaxAgents, s \in Seeds, it \in 0 .. MaxIterations,
        pr \in Profiles }
    \cup
    { SimParams(10, s, it, pr) :
        s \in Seeds, it \in 1 .. MaxIterations, pr \in ScenarioProfiles }
    \cup
    { SimParams(6, s, it, DefaultProfile) :
        s \in Seeds, it \in 1 .. MaxIterations }
    \cup
    { SimParams(128, s, 2, SingleGroupProfile) : s \in {1, 2} }

\* ------------------------------------------------------------- state
VARIABLES
    params,             \* the SimParams of the request
    pc,                 \* position in run_simulation
    rng,                \* number of outputs consumed from the generator
    agents,             \* list of Agent
    hr,                 \* HRDepartment
    platform,           \* Platform
    history,            \* list of MetricSnapshot
    prev_disparity,     \* disparity_exposure of the previous snapshot, or None
    t,                  \* the loop variable _t
    groups, shown_levels, chosen_levels, accepted_flags,
    user_chose_high, hr_accepted_high, applicant_records,
    responses           \* histories already returned to the caller

vars ==
    <<params, pc, rng, agents, hr, platform, history, prev_disparity, t,
      groups, shown_levels, chosen_levels, accepted_flags,
      user_chose_high, hr_accepted_high, applicant_records, responses>>

iteration_locals ==
    <<groups, shown_levels, chosen_levels, accepted_flags,
      user_chose_high, hr_accepted_high, applicant_records>>

\* The server waits for a request: params holds the defaults of SimParams,
\* no run has started and no local of run_simulation is bound.
Init ==
    /\ params = SimParams(200, 42, 20, DefaultProfile)
    /\ pc = "idle"
    /\ rng = 0
    /\ agents = <<>>
    /\ hr = HRDepartment(Zero, Zero, Zero, Zero)
    /\ platform = [Platform(Zero, Zero, Zero) EXCEPT !.p_high = [A |-> Zero, B |-> Zero]]
    /\ history = <<>>
    /\ prev_disparity = None
    /\ t = 0
    /\ groups = <<>>
    /\ shown_levels = <<>>
    /\ chosen_levels = <<>>
    /\ accepted_flags = <<>>
    /\ user_chose_high = [A |-> <<>>, B |-> <<>>]
    /\ hr_accepted_high = [A |-> <<>>, B |-> <<>>]
    /\ applicant_records = <<>>
    /\ responses = <<>>

\* ------------------------------------------------------ list helpers
\* sum() of a list of numbers.
Total(s) ==
    LET partial[k \in 0 .. Len(s)] == IF k = 0 THEN 0 ELSE partial[k - 1] + s[k]
    IN  partial[Len(s)]
Sum(s) == Call1(Total, s)

\* sum() of a list of bools: True counts 1.
BoolSum(s) == Sum([j \in 1 .. Len(s) |-> IF s[j] THEN 1 ELSE 0])

PyMaxInt(a, b) == IF b > a THEN b ELSE a

\* s[:k] for k >= 0.
Slice(s, k) == SubSeq(s, 1, IF k < Len(s) THEN k ELSE Len(s))
Prefix(s, k) == Call2(Slice, s, k)

\* ------------------------------------------- 1. create agents (99-113)
SkillMean == <<1, 2>>
SkillSigma == <<3, 20>>
PrefNoiseSigma == <<1, 20>>

\* One pass of the loop of lines 101-113: three draws, one agent.
NewAgent(p, pos) ==
    LET group == IF QLt(random(p.seed, pos), p.group_imbalance)
                 THEN "A" ELSE "B"
        skill == clamp01(gauss(p.seed, pos + 1, SkillMean, SkillSigma))
        pref == clamp01(QAdd(skill, gauss(p.seed, pos + 2, Zero, PrefNoiseSigma)))
    IN  Agent(group, skill, p.t_user, p.a_user, p.r_user, pref)

\* server.py 61-84: a request is decoded into SimParams and run_simulation
\* is called with it.
HandleRun ==
    /\ pc = "idle"
    /\ params' \in ParamSpace
    /\ pc' = "start"
    /\ UNCHANGED <<rng, agents, hr, platform, history, prev_disparity, t,
                   iteration_locals, responses>>

\* Line 97-100: the seeded generator and the empty population.
Seed ==
    /\ pc = "start"
    /\ rng' = NewRandom(params.seed)
    /\ agents' = <<>>
    /\ pc' = "generate"
    /\ UNCHANGED <<params, hr, platform, history, prev_disparity, t,
                   iteration_locals, responses>>

GenerateAgent ==
    /\ pc = "generate"
    /\ Len(agents) < params.n_agents
    /\ agents' = Append(agents, NewAgent(params, rng))
    /\ rng' = rng + 3
    /\ UNCHANGED <<params, pc, hr, platform, history, prev_disparity, t,
                   iteration_locals, responses>>

\* ------------------------------------ 2. create HR and Platform (116-130)
StalePlatform(p) ==
    [learning_rate |-> p.lr, diversity_regularization |-> p.diversity_reg,
     feedback_weight |-> p.feedback_weight, p_high |-> platform.p_high]
NewPlatform(p) == Platform(p.lr, p.diversity_reg, p.feedback_weight)

CreateActors ==
    /\ pc = "generate"
    /\ Len(agents) = params.n_agents
    /\ hr' = HRDepartment(params.t_hr, params.b_hr, params.hiring_threshold,
                          params.hiring_capacity)
    /\ platform' = NewPlatform(params)
    /\ history' = <<>>
    /\ prev_disparity' = None
    /\ t' = 0
    /\ pc' = "loop"
    /\ UNCHANGED <<params, rng, agents, iteration_locals, responses>>

\* --------------------------------------------- 3. iteration loop (132-253)
range_inclusive(k, n) == k <= n
\* Whether `for _t in range(n)` has a pass left after k passes.
range_has_next(k, n) == k < n

\* The agent the inner loop is at: one record is appended per agent.
CurrentAgent == agents[Len(applicant_records) + 1]

\* Lines 133-143: fresh per-iteration lists.
BeginIteration ==
    /\ pc = "loop"
    /\ range_has_next(t, params.iterations)
    /\ groups' = <<>>
    /\ shown_levels' = <<>>
    /\ chosen_levels' = <<>>
    /\ accepted_flags' = <<>>
    /\ user_chose_high' = [A |-> <<>>, B |-> <<>>]
    /\ hr_accepted_high' = [A |-> <<>>, B |-> <<>>]
    /\ applicant_records' = <<>>
    /\ pc' = IF agents = <<>> THEN "rank" ELSE "expose"
    /\ UNCHANGED <<params, rng, agents, hr, platform, history,
                   prev_disparity, t, responses>>

\* Lines 154-156.
exposure_probability(pf, g) ==
    clamp01(QAdd(QMul(QSub(One, pf.diversity_regularization), pf.p_high[g]),
                 QMul(pf.diversity_regularization, Half)))

\* STEP 1 (146-158): the exposure draw.
Expose ==
    /\ pc = "expose"
    /\ LET g == CurrentAgent.group
           p_final == exposure_probability(platform, g)
           shown_high == IF QLt(random(params.seed, rng), p_final) THEN 1 ELSE 0
       IN  /\ groups' = Append(groups, g)
           /\ shown_levels' = Append(shown_levels, shown_high)
    /\ rng' = rng + 1
    /\ pc' = "trust"
    /\ UNCHANGED <<params, agents, hr, platform, history, prev_disparity, t,
                   chosen_levels, accepted_flags, user_chose_high,
                   hr_accepted_high, applicant_records, responses>>

follows_platform_or_equal(draw, agent) == QLe(draw, agent.trust_in_algorithm)
\* Line 161.
follows_platform(draw, agent) == QLt(draw, agent.trust_in_algorithm)

\* STEP 2 (161): the trust draw selects the branch.
Trust ==
    /\ pc = "trust"
    /\ pc' = IF follows_platform(random(params.seed, rng), CurrentAgent)
             THEN "explore" ELSE "prefer"
    /\ rng' = rng + 1
    /\ UNCHANGED <<params, agents, hr, platform, history, prev_disparity, t,
                   iteration_locals, responses>>

\* Lines 171-173.
RecordChoice(chosen) ==
    /\ chosen_levels' = Append(chosen_levels, chosen)
    /\ user_chose_high' =
           [user_chose_high EXCEPT ![CurrentAgent.group] = Append(@, chosen)]

\* Lines 163-167: the exploration draw.
Explore ==
    /\ pc = "explore"
    /\ LET shown_high == shown_levels[Len(shown_levels)]
       IN  RecordChoice(IF QLt(random(params.seed, rng), CurrentAgent.risk_tolerance)
                        THEN 1 - shown_high ELSE shown_high)
    /\ rng' = rng + 1
    /\ pc' = "evaluate"
    /\ UNCHANGED <<params, agents, hr, platform, history, prev_disparity, t,
                   groups, shown_levels, accepted_flags, hr_accepted_high,
                   applicant_records, responses>>

\* Line 170: the preference draw.
Prefer ==
    /\ pc = "prefer"
    /\ RecordChoice(IF QLt(random(params.seed, rng), CurrentAgent.preference_for_high)
                    THEN 1 ELSE 0)
    /\ rng' = rng + 1
    /\ pc' = "evaluate"
    /\ UNCHANGED <<params, agents, hr, platform, history, prev_disparity, t,
                   groups, shown_levels, accepted_flags, hr_accepted_high,
                   applicant_records, responses>>

final_score_by_preference(agent, h) ==
    LET model_score == agent.preference_for_high
        human_score == QSub(agent.skill,
                            IF agent.group = "B" THEN h.institutional_bias ELSE Zero)
    IN  QAdd(QMul(h.trust_in_model, model_score),
             QMul(QSub(One, h.trust_in_model), human_score))
\* Lines 177-182.
final_score(agent, h) ==
    LET model_score == agent.skill
        human_score == QSub(agent.skill,
                            IF agent.group = "B" THEN h.institutional_bias ELSE Zero)
    IN  QAdd(QMul(h.trust_in_model, model_score),
             QMul(QSub(One, h.trust_in_model), human_score))

\* STEP 3 (177-191): HR evaluation of the current agent.
Evaluate ==
    /\ pc = "evaluate"
    /\ LET score == final_score(CurrentAgent, hr)
       IN  applicant_records' = Append(applicant_records,
               [idx |-> Len(applicant_records),
                group |-> CurrentAgent.group,
                final_score |-> score,
                chosen_high |-> chosen_levels[Len(chosen_levels)],
                meets_threshold |-> QLe(hr.hiring_threshold, score)])
    /\ pc' = IF Len(applicant_records) + 1 < Len(agents) THEN "expose" ELSE "rank"
    /\ UNCHANGED <<params, rng, agents, hr, platform, history, prev_disparity,
                   t, groups, shown_levels, chosen_levels, accepted_flags,
                   user_chose_high, hr_accepted_high, responses>>

\* ------------------------------------- capacity-capped ranking (193-209)
\* Insertion of x behind every record whose score is at least x's: with
\* Sorted it is list.sort(key=final_score, reverse=True), which is stable.
RECURSIVE InsertDesc(_, _)
InsertDesc(sorted, x) ==
    IF sorted = <<>> THEN <<x>>
    ELSE IF Less(Head(sorted).final_score, x.final_score) THEN <<x>> \o sorted
    ELSE <<Head(sorted)>> \o Call2(InsertDesc, Tail(sorted), x)

\* The same, but x goes ahead of the records of equal score.
RECURSIVE InsertDescUnstable(_, _)
InsertDescUnstable(sorted, x) ==
    IF sorted = <<>> THEN <<x>>
    ELSE IF LessEq(Head(sorted).final_score, x.final_score) THEN <<x>> \o sorted
    ELSE <<Head(sorted)>> \o Call2(InsertDescUnstable, Tail(sorted), x)

RECURSIVE SortedUnstable(_)
SortedUnstable(records) ==
    IF records = <<>> THEN <<>>
    ELSE Call2(InsertDescUnstable,
               Call1(SortedUnstable, SubSeq(records, 1, Len(records) - 1)),
               records[Len(records)])

RECURSIVE Sorted(_)
Sorted(records) ==
    IF records = <<>> THEN <<>>
    ELSE Call2(InsertDesc,
               Call1(Sorted, SubSeq(records, 1, Len(records) - 1)),
               records[Len(records)])

max_accept_plus_one(h, n) ==
    PyMaxInt(1, PyInt(QMul(h.hiring_capacity, FromInt(n)))) + 1
max_accept_minus_one(h, n) ==
    PyMaxInt(1, PyInt(QMul(h.hiring_capacity, FromInt(n))) - 1)
\* Line 197.
max_accept(h, n) == PyMaxInt(1, PyInt(QMul(h.hiring_capacity, FromInt(n))))

\* Lines 194-200.
IdxSet(top) == {top[j].idx : j \in 1 .. Len(top)}
accepted_set(records, h) ==
    LET eligible == Call1(Sorted, SelectSeq(records, LAMBDA r : r.meets_threshold))
        top == Prefix(eligible, max_accept(h, Len(records)))
    IN  Call1(IdxSet, top)

PhaseAfterSwapped(phase) ==
    CASE phase = "rank" -> "update_preferences"
      [] phase = "update_preferences" -> "update_platform"
      [] phase = "update_platform" -> "record"
      [] phase = "record" -> "loop"
\* The order of the statements that follow the agent loop (193-253).
PhaseAfter(phase) ==
    CASE phase = "rank" -> "update_platform"
      [] phase = "update_platform" -> "update_preferences"
      [] phase = "update_preferences" -> "record"
      [] phase = "record" -> "loop"

\* Lines 193-209: the cap, the flags and the HR signal lists.
ApplyCapacity ==
    /\ pc = "rank"
    /\ \E acc \in {accepted_set(applicant_records, hr)} :
       LET flags == [j \in 1 .. Len(applicant_records) |->
                        applicant_records[j].idx \in acc]
           high(g) == SelectSeq(applicant_records,
                          LAMBDA r : r.group = g /\ r.chosen_high = 1)
           signal(g) == [j \in 1 .. Len(high(g)) |-> high(g)[j].idx \in acc]
       IN  /\ accepted_flags' = flags
           /\ hr_accepted_high' = [A |-> signal("A"), B |-> signal("B")]
    /\ pc' = PhaseAfter("rank")
    /\ UNCHANGED <<params, rng, agents, hr, platform, history, prev_disparity,
                   t, groups, shown_levels, chosen_levels, user_chose_high,
                   applicant_records, responses>>

\* ------------------------------- STEP 4: platform feedback update (212-230)
updated_p_high(pf, g, u_list, h_list) ==
    LET user_signal == safe_div(Sum(u_list), Len(u_list), Zero)
        hr_signal == IF h_list # <<>>
                     THEN safe_div(BoolSum(h_list), Len(h_list), Zero)
                     ELSE user_signal
        observed == QAdd(QMul(pf.feedback_weight, user_signal),
                         QMul(QSub(One, pf.feedback_weight), hr_signal))
    IN  clamp01(QAdd(QMul(QSub(One, pf.learning_rate), pf.p_high[g]),
                     QMul(pf.learning_rate, observed)))

UpdatePlatform ==
    /\ pc = "update_platform"
    /\ platform' = [platform EXCEPT !.p_high =
           [A |-> updated_p_high(platform, "A", user_chose_high.A, hr_accepted_high.A),
            B |-> updated_p_high(platform, "B", user_chose_high.B, hr_accepted_high.B)]]
    /\ pc' = PhaseAfter("update_platform")
    /\ UNCHANGED <<params, rng, agents, hr, history, prev_disparity, t,
                   iteration_locals, responses>>

\* ------------------------------- STEP 5: preference update (233-240)
internalized(agent, shown) ==
    clamp01(QAdd(QMul(QSub(One, agent.adaptation_speed), agent.preference_for_high),
                 QMul(agent.adaptation_speed, FromInt(shown))))

UpdatePreferences ==
    /\ pc = "update_preferences"
    /\ agents' = [j \in 1 .. Len(agents) |->
           [agents[j] EXCEPT !.preference_for_high =
                internalized(agents[j], shown_levels[j])]]
    /\ pc' = PhaseAfter("update_preferences")
    /\ UNCHANGED <<params, rng, hr, platform, history, prev_disparity, t,
                   iteration_locals, responses>>

\* ------------------------------------------------------------ metrics.py
NDigits == 6

CountGroup(gs, g) == Cardinality({j \in 1 .. Len(gs) : gs[j] = g})

\* sum(v for g, v in zip(groups, values) if g == group)
SumGroup(gs, values, g) ==
    Sum([j \in 1 .. Len(gs) |-> IF gs[j] = g THEN values[j] ELSE 0])

disparity_reversed(rate_A, rate_B) == QSub(rate_B, rate_A)
\* Lines 57-58.
disparity(rate_A, rate_B) == QSub(rate_A, rate_B)

reinforcement_no_baseline(disparity_exposure, prev_disparity_exposure) ==
    IF prev_disparity_exposure # None
    THEN QSub(disparity_exposure, prev_disparity_exposure)
    ELSE disparity_exposure
\* Lines 61-64.
reinforcement(disparity_exposure, prev_disparity_exposure) ==
    IF prev_disparity_exposure # None
    THEN QSub(disparity_exposure, prev_disparity_exposure)
    ELSE Zero

compute_iteration_metrics(gs, shown, chosen, accepted, p_high_A, p_high_B, prev_disparity_exposure) ==
    LET n_A == CountGroup(gs, "A")
        n_B == CountGroup(gs, "B")
        exposure_high_A == safe_div(SumGroup(gs, shown, "A"), n_A, Zero)
        exposure_high_B == safe_div(SumGroup(gs, shown, "B"), n_B, Zero)
        choice_high_A == safe_div(SumGroup(gs, chosen, "A"), n_A, Zero)
        choice_high_B == safe_div(SumGroup(gs, chosen, "B"), n_B, Zero)
        acc == [j \in 1 .. Len(accepted) |-> IF accepted[j] THEN 1 ELSE 0]
        acceptance_rate_A == safe_div(SumGroup(gs, acc, "A"), n_A, Zero)
        acceptance_rate_B == safe_div(SumGroup(gs, acc, "B"), n_B, Zero)
        disparity_exposure == disparity(exposure_high_A, exposure_high_B)
        disparity_accept == disparity(acceptance_rate_A, acceptance_rate_B)
        reinforcement_index == reinforcement(disparity_exposure,
                                             prev_disparity_exposure)
    IN  [exposure_high_A |-> PyRound(exposure_high_A, NDigits),
         exposure_high_B |-> PyRound(exposure_high_B, NDigits),
         choice_high_A |-> PyRound(choice_high_A, NDigits),
         choice_high_B |-> PyRound(choice_high_B, NDigits),
         acceptance_rate_A |-> PyRound(acceptance_rate_A, NDigits),
         acceptance_rate_B |-> PyRound(acceptance_rate_B, NDigits),
         diversity_entropy_A |-> PyRound(shannon_entropy(exposure_high_A), NDigits),
         diversity_entropy_B |-> PyRound(shannon_entropy(exposure_high_B), NDigits),
         disparity_exposure |-> PyRound(disparity_exposure, NDigits),
         disparity_accept |-> PyRound(disparity_accept, NDigits),
         reinforcement_index |-> PyRound(reinforcement_index, NDigits),
         p_high_A |-> PyRound(p_high_A, NDigits),
         p_high_B |-> PyRound(p_high_B, NDigits)]

\* Lines 243-253: the snapshot of the round; the loop moves on.
RecordMetrics ==
    /\ pc = "record"
    /\ LET snapshot == compute_iteration_metrics(groups, shown_levels,
                           chosen_levels, accepted_flags, platform.p_high.A,
                           platform.p_high.B, prev_disparity)
       IN  /\ prev_disparity' = snapshot.disparity_exposure
           /\ history' = Append(history, snapshot)
    /\ t' = t + 1
    /\ pc' = PhaseAfter("record")
    /\ UNCHANGED <<params, rng, agents, hr, platform, iteration_locals,
                   responses>>

\* Lines 255-273: the loop is exhausted, the history is returned.
Return ==
    /\ pc = "loop"
    /\ ~range_has_next(t, params.iterations)
    /\ pc' = "done"
    /\ UNCHANGED <<params, rng, agents, hr, platform, history, prev_disparity,
                   t, iteration_locals, responses>>

\* server.py 84: the caller keeps the result and calls run_simulation again
\* with the same request; the finished run's objects are garbage.
Rerun ==
    /\ pc = "done"
    /\ responses = <<>>
    /\ responses' = Append(responses, history)
    /\ pc' = "start"
    /\ UNCHANGED <<params, rng, agents, hr, platform, history, prev_disparity,
                   t, iteration_locals>>

Next ==
    \/ HandleRun
    \/ Seed
    \/ GenerateAgent
    \/ CreateActors
    \/ BeginIteration
    \/ Expose
    \/ Trust
    \/ Explore
    \/ Prefer
    \/ Evaluate
    \/ ApplyCapacity
    \/ UpdatePlatform
    \/ UpdatePreferences
    \/ RecordMetrics
    \/ Return

Spec == Init /\ [][Next]_vars

\* run_simulation is a sequential function: it always takes its next step.
FairSpec == Spec /\ WF_vars(Next)

\* Two invocations with the same request.
NextRerun == Next \/ Rerun
SpecRerun == Init /\ [][NextRerun]_vars

\* ================================================================ claims
Last(s) == s[Len(s)]

\* The flags of the round are computed: from the cap to the next round.
FlagsComputed ==
    \/ pc \in {"update_platform", "update_preferences", "record"}
    \/ pc \in {"loop", "done"} /\ t >= 1

AcceptedCount == Cardinality({j \in 1 .. Len(accepted_flags) : accepted_flags[j]})

\* floor(hiring_capacity * N), for hiring_capacity >= 0.
CapacityFloor ==
    (params.hiring_capacity[1] * params.n_agents) \div params.hiring_capacity[2]

EligibleIdx ==
    {j \in 1 .. Len(applicant_records) :
        QLe(params.hiring_threshold, applicant_records[j].final_score)}

\* C1: in every iteration the number of agents flagged accepted is >= 0 and
\* <= max(1, floor(hiring_capacity * N)), for every N >= 0 and every
\* hiring_capacity in [0, 1].
C1_AcceptedWithinCap ==
    /\ AcceptedCount >= 0
    /\ AcceptedCount <= (IF CapacityFloor > 1 THEN CapacityFloor ELSE 1)
    /\ FlagsComputed => Len(accepted_flags) = params.n_agents

\* The cap binds: more agents are eligible than are accepted.
C1_Witness ==
    /\ pc = "update_platform"
    /\ AcceptedCount >= 1
    /\ Cardinality(EligibleIdx) > AcceptedCount

PlatformExists == pc \notin {"idle", "start", "generate"}

\* C2: p_high["A"] and p_high["B"] start at 0.5 and lie in [0, 1] in every
\* state of a run, after every learning update, whatever learning_rate and
\* feedback_weight are and whatever was chosen and accepted.
C2_PHighInUnitInterval ==
    PlatformExists =>
        /\ \A g \in {"A", "B"} :
              QLe(Zero, platform.p_high[g]) /\ QLe(platform.p_high[g], One)
        /\ (t = 0 /\ pc \notin {"update_preferences", "record"})
              => platform.p_high = [A |-> Half, B |-> Half]

\* A learning rate outside [0, 1] has driven an update to the upper edge.
C2_Witness ==
    /\ pc = "update_preferences"
    /\ QLt(One, params.lr)
    /\ platform.p_high.A = One
    /\ platform.p_high.B = Zero

\* Exposure rate of a group, counted from the vectors of the round.
ExposureRate(g) ==
    LET members == {j \in 1 .. Len(groups) : groups[j] = g}
        high == {j \in members : shown_levels[j] = 1}
    IN  IF members = {} THEN Zero ELSE Q(Cardinality(high), Cardinality(members))

QAbs(x) == <<Abs(x[1]), x[2]>>

\* C3 as stated: in every snapshot the recorded disparity_exposure equals
\* the recorded exposure_high_A minus the recorded exposure_high_B.
C3_Original ==
    \A k \in 1 .. Len(history) :
        history[k].disparity_exposure =
            QSub(history[k].exposure_high_A, history[k].exposure_high_B)

\* C3, amended: the recorded disparity_exposure is the 6-decimal rounding of
\* the difference of the unrounded exposure rates, and it is within 10^-6
\* of recorded exposure_high_A minus recorded exposure_high_B.
C3_DisparityOfUnrounded ==
    /\ (pc = "loop" /\ t >= 1) =>
          Last(history).disparity_exposure =
              PyRound(QSub(ExposureRate("A"), ExposureRate("B")), 6)
    /\ \A k \in 1 .. Len(history) :
          QLe(QAbs(QSub(history[k].disparity_exposure,
                        QSub(history[k].exposure_high_A,
                             history[k].exposure_high_B))),
              <<1, 1000000>>)

\* A snapshot whose recorded values differ in the sixth decimal.
C3_Witness ==
    /\ pc = "loop"
    /\ t >= 1
    /\ Last(history).disparity_exposure #
           QSub(Last(history).exposure_high_A, Last(history).exposure_high_B)

\* C4 as stated: the first snapshot has reinforcement_index 0; every later
\* one has its disparity_exposure minus the previous snapshot's
\* disparity_exposure.
C4_Original ==
    \A k \in 1 .. Len(history) :
        history[k].reinforcement_index =
            IF k = 1 THEN Zero
            ELSE QSub(history[k].disparity_exposure,
                      history[k - 1].disparity_exposure)

\* C4, amended: the first snapshot has reinforcement_index 0; every later one
\* has the 6-decimal rounding of its unrounded exposure disparity minus the
\* previous snapshot's recorded disparity_exposure, which is within 10^-6 of
\* its recorded disparity_exposure minus the previous snapshot's.
C4_ReinforcementOfUnrounded ==
    /\ Len(history) >= 1 => history[1].reinforcement_index = Zero
    /\ (pc = "loop" /\ t >= 2) =>
          Last(history).reinforcement_index =
              PyRound(QSub(QSub(ExposureRate("A"), ExposureRate("B")),
                           history[t - 1].disparity_exposure), 6)
    /\ \A k \in 2 .. Len(history) :
          QLe(QAbs(QSub(history[k].reinforcement_index,
                        QSub(history[k].disparity_exposure,
                             history[k - 1].disparity_exposure))),
              <<1, 1000000>>)

\* A second snapshot whose reinforcement_index differs in the sixth decimal
\* from the difference of the two recorded disparities.
C4_Witness ==
    /\ pc = "loop"
    /\ t = 2
    /\ history[1].disparity_exposure # Zero
    /\ history[2].reinforcement_index #
           QSub(history[2].disparity_exposure, history[1].disparity_exposure)

\* C5: two invocations with the same parameters and seed, fed the same
\* draws, return the same history; nothing of the first run reaches the
\* second.
C5_Determinism ==
    (pc = "done" /\ responses # <<>>) => history = responses[1]

\* A second run has finished whose platform state moved between rounds.
C5_Witness ==
    /\ pc = "done"
    /\ responses # <<>>
    /\ Len(history) >= 2
    /\ history[1].p_high_A # Half
    /\ history[2].p_high_A # history[1].p_high_A

ScenarioRun ==
    /\ params.n_agents = 10
    /\ params.hiring_threshold = <<-1, 1>>
    /\ params.hiring_capacity = One

\* C6 as stated: in the scenario every snapshot has acceptance_rate_A = 1,
\* acceptance_rate_B = 1 and disparity_accept = 0.
C6_Original ==
    ScenarioRun =>
        \A k \in 1 .. Len(history) :
            /\ history[k].acceptance_rate_A = One
            /\ history[k].acceptance_rate_B = One
            /\ history[k].disparity_accept = Zero

GroupSize(g) == Cardinality({j \in 1 .. Len(agents) : agents[j].group = g})

\* C6, amended: in the scenario every agent whose final_score is >= -1 is
\* accepted in every iteration; that is every agent when
\* (1 - t_hr) * b_hr <= 1, and then every snapshot has acceptance rate 1 for
\* each group that has an agent, 0 for an empty group, and disparity_accept
\* their difference (0 when both groups have an agent).
C6_ScenarioAcceptsEligible ==
    ScenarioRun =>
        /\ FlagsComputed =>
              \A j \in 1 .. Len(accepted_flags) :
                  accepted_flags[j] = (j \in EligibleIdx)
        /\ QLe(QMul(QSub(One, params.t_hr), params.b_hr), One) =>
              \A k \in 1 .. Len(history) :
                  LET rate(g) == IF GroupSize(g) > 0 THEN One ELSE Zero
                  IN  /\ history[k].acceptance_rate_A = rate("A")
                      /\ history[k].acceptance_rate_B = rate("B")
                      /\ history[k].disparity_accept = QSub(rate("A"), rate("B"))

\* The scenario with both groups present: both rates are 1.
C6_Witness ==
    /\ ScenarioRun
    /\ Len(history) >= 2
    /\ GroupSize("A") > 0
    /\ GroupSize("B") > 0
    /\ history[2].acceptance_rate_A = One
    /\ history[2].acceptance_rate_B = One
    /\ history[2].disparity_accept = Zero

\* C7: run_simulation terminates after exactly `iterations` rounds: the
\* returned history has `iterations` snapshots (none when iterations = 0),
\* the k-th appended by round k and never changed afterwards.
C7_RunsAllRounds ==
    /\ <>(pc = "done")
    /\ [](pc = "done" => Len(history) = params.iterations /\ t = params.iterations)
    /\ [][ \/ history' = history
           \/ /\ pc = "record"
              /\ Len(history') = Len(history) + 1
              /\ SubSeq(history', 1, Len(history)) = history
              /\ Len(history') = t' ]_vars

\* A run of at least two rounds has returned.
C7_Witness ==
    /\ pc = "done"
    /\ params.iterations >= 2
    /\ Len(history) = params.iterations

\* Rank of record j among the eligible: the eligible records ahead of it,
\* by higher final_score, or equal final_score and earlier generation.
RankAmongEligible(j) ==
    Cardinality({i \in EligibleIdx :
        \/ QLt(applicant_records[j].final_score, applicant_records[i].final_score)
        \/ /\ applicant_records[i].final_score = applicant_records[j].final_score
           /\ i < j})

\* C8: the accepted agents are exactly the first
\* min(|E|, max(1, floor(hiring_capacity * N))) of the eligible agents E
\* ordered by final_score descending, ties by generation order.
C8_RankedAcceptance ==
    FlagsComputed =>
        LET cap == IF CapacityFloor > 1 THEN CapacityFloor ELSE 1
        IN  \A j \in 1 .. Len(applicant_records) :
                accepted_flags[j] =
                    (j \in EligibleIdx /\ RankAmongEligible(j) < cap)

\* Two eligible agents of equal score: the earlier accepted, the later not.
C8_Witness ==
    /\ pc = "update_platform"
    /\ \E i, j \in EligibleIdx :
          /\ i < j
          /\ applicant_records[i].final_score = applicant_records[j].final_score
          /\ accepted_flags[i]
          /\ ~accepted_flags[j]

AgentPhases == {"expose", "trust", "explore", "prefer", "evaluate"}
RoundPhases ==
    AgentPhases \cup {"loop", "rank", "update_platform", "update_preferences",
                      "record"}

\* C9: in each round p_high and the preferences are written once each, the
\* platform first, then the preferences, then the snapshot (which holds the
\* updated p_high), and only after the exposure and choice of every agent.
C9_UpdateOrder ==
    [][ /\ (pc \in RoundPhases /\ platform' # platform) => pc = "update_platform"
        /\ (pc \in RoundPhases /\ agents' # agents) => pc = "update_preferences"
        /\ pc' = "update_platform" =>
              /\ pc = "rank"
              /\ Len(shown_levels) = Len(agents)
              /\ Len(chosen_levels) = Len(agents)
        /\ pc = "update_platform" => pc' = "update_preferences"
        /\ pc' = "update_preferences" => pc = "update_platform"
        /\ pc = "update_preferences" => pc' = "record"
        /\ pc' = "record" => pc = "update_preferences"
        /\ pc = "record" =>
              /\ pc' = "loop"
              /\ Last(history').p_high_A = PyRound(platform.p_high.A, 6)
              /\ Last(history').p_high_B = PyRound(platform.p_high.B, 6) ]_vars

\* A round whose update moved p_high away from the last snapshot's value.
C9_Witness ==
    /\ pc = "record"
    /\ t >= 1
    /\ PyRound(platform.p_high.A, 6) # history[t].p_high_A
    /\ \E j \in 1 .. Len(agents) : agents[j].preference_for_high \notin {Zero, One}

\* Draws consumed when the round's agent loop is at its current position.
DrawsSoFar ==
    LET n == params.n_agents
        base == 3 * n + 3 * n * t
    IN  CASE pc = "loop" -> base
          [] pc = "done" -> base
          [] pc = "expose" -> base + 3 * Len(applicant_records)
          [] pc = "trust" -> base + 3 * Len(applicant_records) + 1
          [] pc \in {"explore", "prefer"} -> base + 3 * Len(applicant_records) + 2
          [] pc = "evaluate" -> base + 3 * Len(applicant_records) + 3
          [] pc \in {"rank", "update_platform", "update_preferences", "record"}
               -> base + 3 * n

\* C10: in a round each agent consumes three draws, exposure, trust, then
\* exploration (trust draw < trust_in_algorithm) or else preference, before
\* the next agent draws; a round advances the stream by 3 * N and nothing
\* else in the round draws.
C10_DrawOrder ==
    /\ [](pc \in RoundPhases \cup {"done"} => rng = DrawsSoFar)
    /\ [][ /\ (pc \in RoundPhases /\ rng' # rng) =>
                 /\ rng' = rng + 1
                 /\ pc \in {"expose", "trust", "explore", "prefer"}
           /\ pc = "expose" => pc' = "trust"
           /\ pc = "trust" =>
                 pc' = IF QLt(random(params.seed, rng),
                              agents[Len(applicant_records) + 1].trust_in_algorithm)
                       THEN "explore" ELSE "prefer"
           /\ pc \in {"explore", "prefer"} => pc' = "evaluate"
           /\ pc = "evaluate" =>
                 pc' = IF Len(applicant_records') < params.n_agents
                       THEN "expose" ELSE "rank" ]_vars

\* A later agent of a later round is about to take its preference draw.
C10_Witness ==
    /\ pc = "prefer"
    /\ t >= 1
    /\ Len(applicant_records) >= 1

\* The score of agent j from what is fixed at generation: its skill, its
\* group and the HR parameters of the request.
FixedScore(j) ==
    LET penalty == IF agents[j].group = "B" THEN params.b_hr ELSE Zero
    IN  QAdd(QMul(params.t_hr, agents[j].skill),
             QMul(QSub(One, params.t_hr), QSub(agents[j].skill, penalty)))

FixedEligible == {j \in 1 .. Len(agents) : QLe(params.hiring_threshold, FixedScore(j))}

\* The agents ahead of j among the eligible, by fixed score then index.
FixedRank(j) ==
    Cardinality({i \in FixedEligible :
        \/ QLt(FixedScore(j), FixedScore(i))
        \/ FixedScore(i) = FixedScore(j) /\ i < j})

\* The accepted flags as a function of the fixed attributes alone.
FixedFlags ==
    LET cap == IF CapacityFloor > 1 THEN CapacityFloor ELSE 1
    IN  [j \in 1 .. Len(agents) |-> j \in FixedEligible /\ FixedRank(j) < cap]

\* A step of a round leaves the HR parameters and every agent's skill and
\* group alone.
FixedAttributesKept ==
    pc \in RoundPhases =>
        /\ hr' = hr
        /\ params' = params
        /\ Len(agents') = Len(agents)
        /\ \A j \in 1 .. Len(agents) :
              /\ agents'[j].skill = agents[j].skill
              /\ agents'[j].group = agents[j].group

\* C11: the accepted set is the same in every iteration of a run: it is a
\* function of each agent's group and skill and the HR parameters, none of
\* which a round changes, and not of exposure, choice, p_high or
\* preference_for_high; so acceptance_rate_A, acceptance_rate_B and
\* disparity_accept are the same in every snapshot of a history.
C11_AcceptanceFixed ==
    /\ [](FlagsComputed => accepted_flags = FixedFlags)
    /\ [](\A k \in 1 .. Len(history) :
            /\ history[k].acceptance_rate_A = history[1].acceptance_rate_A
            /\ history[k].acceptance_rate_B = history[1].acceptance_rate_B
            /\ history[k].disparity_accept = history[1].disparity_accept)
    /\ [][FixedAttributesKept]_vars

\* Two rounds whose exposure, choices, p_high and preferences differ, with
\* some but not all agents of group A accepted in both.
C11_Witness ==
    /\ pc = "loop"
    /\ t = 2
    /\ history[1].exposure_high_A # history[2].exposure_high_A
    /\ history[1].choice_high_A # history[2].choice_high_A
    /\ history[1].p_high_A # history[2].p_high_A
    /\ QLt(Zero, history[2].acceptance_rate_A)
    /\ QLt(history[2].acceptance_rate_A, One)
    /\ history[2].disparity_accept # Zero
    /\ \E j \in 1 .. Len(agents) :
          agents[j].preference_for_high \notin {Zero, One, agents[j].skill}

====
